---- MODULE Spec2Model ----
(***************************************************************************)
(* Model of the SCGE simulation-and-metrics pipeline:                      *)
(*   price_distribution.py  simulate_log_return_paths                      *)
(*   nvdd.py                VolatilityDragConfig, StructuralDecayMonitor   *)
(*                                                                         *)
(* Floats are modelled as exact extended rationals [n |-> , d |-> ] in     *)
(* lowest terms with d >= 0: d = 0 holds the IEEE specials (1/0 is +inf,   *)
(* -1/0 is -inf, 0/0 is NaN).  Rounding is not modelled.                   *)
(***************************************************************************)
EXTENDS Integers, Sequences, FiniteSets, TLC

VARIABLES
    config,       \* self.config of the monitor (a VolatilityDragConfig)
    attrs,        \* names of the instance attributes of the monitor (self.__dict__)
    sim_paths,    \* self.sim_paths when "sim_paths" \in attrs
    op,           \* the monitor method called last
    ret,          \* how that call ended: what it returned or raised
    frame,        \* the local lists trends, drags, effs the last call ended with
    stdout,       \* the status line the last call printed
    loads,        \* history: number of load_simulated_returns calls so far
    last_loaded,  \* history: the argument of the most recent load
    superseded,   \* history: the most recent load replaced a different matrix
    sim_calls,    \* history: number of simulate_log_return_paths calls so far
    sim_last,     \* history: arguments and outcome of the most recent simulate call
    sim_ref       \* history: arguments and outcome of one remembered earlier call

vars == <<config, attrs, sim_paths, op, ret, frame, stdout, loads, last_loaded,
          superseded, sim_calls, sim_last, sim_ref>>

monitor_vars ==
    <<config, attrs, sim_paths, op, ret, frame, stdout, loads, last_loaded, superseded>>

simulator_vars == <<sim_calls, sim_last, sim_ref>>

----------------------------------------------------------------------------
(* Bounds of the model *)

MaxPaths == 2

MaxDays == 2

MaxLoads == 2

MaxCalls == 3

(* Program constants *)

EpsInv == 100000000

TradingDays == 252

DefaultSeed == 42

----------------------------------------------------------------------------
(* Float arithmetic *)

Sign(x) == IF x > 0 THEN 1 ELSE IF x < 0 THEN -1 ELSE 0

Abs(x) == IF x < 0 THEN -x ELSE x

RECURSIVE Gcd(_, _)
Gcd(a, b) == IF b = 0 THEN a ELSE Gcd(b, a % b)

Ratio(n, d) ==
    IF d = 0 THEN [n |-> Sign(n), d |-> 0]
    ELSE LET g == Gcd(Abs(n), Abs(d))
         IN  [n |-> Sign(d) * (n \div g), d |-> Abs(d) \div g]

F(i) == [n |-> i, d |-> 1]

NaN == [n |-> 0, d |-> 0]

IsNaN(a) == a.d = 0 /\ a.n = 0

IsInf(a) == a.d = 0 /\ a.n # 0

IsFinite(a) == a.d > 0

FAdd(a, b) ==
    IF IsNaN(a) \/ IsNaN(b) THEN NaN
    ELSE IF IsInf(a) /\ IsInf(b) THEN (IF a.n = b.n THEN a ELSE NaN)
    ELSE IF IsInf(a) THEN a
    ELSE IF IsInf(b) THEN b
    ELSE LET g == Gcd(a.d, b.d)
         IN  Ratio(a.n * (b.d \div g) + b.n * (a.d \div g), (a.d \div g) * b.d)

FMul(a, b) ==
    IF IsNaN(a) \/ IsNaN(b) THEN NaN
    ELSE IF IsInf(a) \/ IsInf(b) THEN Ratio(Sign(a.n) * Sign(b.n), 0)
    ELSE LET g1 == Gcd(Abs(a.n), b.d)
             g2 == Gcd(Abs(b.n), a.d)
         IN  Ratio((a.n \div g1) * (b.n \div g2), (a.d \div g2) * (b.d \div g1))

FDiv(a, b) ==
    IF IsNaN(a) \/ IsNaN(b) THEN NaN
    ELSE IF IsInf(b) THEN (IF IsInf(a) THEN NaN ELSE F(0))
    ELSE IF b.n = 0 THEN Ratio(Sign(a.n), 0)
    ELSE IF IsInf(a) THEN Ratio(Sign(a.n) * Sign(b.n), 0)
    ELSE LET g1 == Gcd(Abs(a.n), Abs(b.n))
             g2 == Gcd(a.d, b.d)
         IN  Ratio(Sign(b.n) * (a.n \div g1) * (b.d \div g2),
                   (a.d \div g2) * (Abs(b.n) \div g1))

FAbs(a) == [n |-> Abs(a.n), d |-> a.d]

FGt(a, b) ==
    IF IsNaN(a) \/ IsNaN(b) THEN FALSE
    ELSE IF IsInf(a) \/ IsInf(b)
         THEN (IF IsInf(a) /\ IsInf(b) THEN a.n > b.n
               ELSE IF IsInf(a) THEN a.n > 0 ELSE b.n < 0)
    ELSE a.n * b.d > b.n * a.d

RECURSIVE FSum(_)
FSum(xs) == IF Len(xs) = 0 THEN F(0) ELSE FAdd(Head(xs), FSum(Tail(xs)))

(* ndarray ** 2, elementwise *)
Squares(xs) == [i \in 1..Len(xs) |-> FMul(xs[i], xs[i])]

(* np.mean of a list: the sum over the count, NaN for the empty list *)
Mean(xs) == FDiv(FSum(xs), F(Len(xs)))

----------------------------------------------------------------------------
(* Input universes *)

(* one basis point, 1e-4 *)
Bp(i) == Ratio(i, 10000)

ReturnValues == {Bp(-1), Bp(1)}

(* paths of every length up to MaxDays: every mix of a loss and a gain of one *)
(* basis point, and the flat paths                                            *)
Rows ==
    UNION {[1..d -> ReturnValues] \cup {[i \in 1..d |-> Bp(0)]} : d \in 0..MaxDays}

Matrices == UNION {[1..n -> Rows] : n \in 0..MaxPaths}

Leverages == {F(-1), F(0), F(1), F(2)}

Windows == 0..(MaxDays + 1)

(* VolatilityDragConfig(ticker, leverage_k, lookback_window, risk_free_rate) *)
VolatilityDragConfig ==
    [ticker : {"NVDD"}, leverage_k : Leverages, lookback_window : Windows,
     risk_free_rate : {F(0)}]

----------------------------------------------------------------------------
(* simulate_log_return_paths *)

RECURSIVE ISqrtFrom(_, _)
ISqrtFrom(n, x) ==
    LET y == (x + n \div x) \div 2
    IN  IF y >= x THEN x ELSE ISqrtFrom(n, y)

(* integer square root (Newton's iteration) *)
ISqrt(n) == IF n = 0 THEN 0 ELSE ISqrtFrom(n, n)

(* np.sqrt: NaN for a negative argument; exact on squares of rationals, the only *)
(* non-negative arguments the model passes                                      *)
FSqrt(a) ==
    IF IsNaN(a) \/ a.n < 0 THEN NaN
    ELSE IF IsInf(a) THEN a
    ELSE Ratio(ISqrt(a.n), ISqrt(a.d))

(* sigma_annual = np.sqrt(forward_variance); sigma_daily = sigma_annual / np.sqrt(252) *)
SigmaDaily(forward_variance) == FSqrt(FDiv(forward_variance, F(TradingDays)))

(* a variant that leaves the seed out, np.random.default_rng(): a fresh generator *)
(* seeded anew on every call                                                     *)
default_rng_unseeded(seed) == (sim_calls * 7 + 3) % 31

(* rng = np.random.default_rng(seed): the state of a fresh generator, a function *)
(* of the seed alone                                                             *)
default_rng(seed) == (seed * 7 + 3) % 31

(* one step of the bit generator *)
Advance(state) == (state * 3 + 1) % 31

(* the standard normal variate a generator state yields, in whole units *)
Variate(state) == (state % 3) - 1

(* the generator's state after count draws *)
RECURSIVE After(_, _)
After(state, count) == IF count = 0 THEN state ELSE After(Advance(state), count - 1)

(* rng.normal(loc=0.0, scale=scale, size=(n_paths, days_to_expiry)): one row per path *)
Normal(rng, scale, n_paths, days_to_expiry) ==
    [p \in 1..n_paths |->
        [t \in 1..days_to_expiry |->
            FAdd(F(0), FMul(scale,
                 F(Variate(After(rng, (p - 1) * days_to_expiry + t)))))]]

SimRaise(e) == [kind |-> "raise", error |-> e, value |-> << >>]

SimReturn(m) == [kind |-> "return", error |-> "", value |-> m]

simulate_log_return_paths(spot, forward_variance, days_to_expiry, n_paths, seed) ==
    LET rng         == default_rng(seed)
        sigma_daily == SigmaDaily(forward_variance)
    IN  IF IsFinite(sigma_daily) /\ sigma_daily.n < 0 THEN SimRaise("scale < 0")
        ELSE IF n_paths < 0 \/ days_to_expiry < 0
             THEN SimRaise("negative dimensions are not allowed")
        ELSE SimReturn(Normal(rng, sigma_daily, n_paths, days_to_expiry))

(* the annualized variance whose daily volatility is s basis points, negated for *)
(* a negative s                                                                 *)
Variance(s) == FMul(F(Sign(s) * TradingDays), FMul(Bp(s), Bp(s)))

ForwardVariances == {Variance(-1), Variance(1)}

DaysToExpiry == (-1)..MaxDays

NPaths == (-1)..MaxPaths

Seeds == {DefaultSeed, DefaultSeed + 1}

Spots == {F(1)}

SimArgs ==
    [spot : Spots, forward_variance : ForwardVariances, days_to_expiry : DaysToExpiry,
     n_paths : NPaths, seed : Seeds]

(* a call of simulate_log_return_paths; the history keeps this call and one  *)
(* earlier call: the one already remembered or, if none is, maybe the call   *)
(* before this one                                                           *)
Simulate(a) ==
    /\ sim_calls < MaxCalls
    /\ sim_calls' = sim_calls + 1
    /\ sim_last' = <<[at   |-> sim_calls + 1,
                      args |-> a,
                      out  |-> simulate_log_return_paths(a.spot, a.forward_variance,
                                   a.days_to_expiry, a.n_paths, a.seed)]>>
    /\ sim_ref' \in IF sim_ref = << >> THEN {sim_ref, sim_last} ELSE {sim_ref}
    /\ UNCHANGED monitor_vars

----------------------------------------------------------------------------
(* StructuralDecayMonitor *)

None == [kind |-> "none", error |-> "", avg_trend |-> NaN, avg_drag |-> NaN,
         avg_efficiency |-> NaN]

Raise(e) == [kind |-> "raise", error |-> e, avg_trend |-> NaN, avg_drag |-> NaN,
             avg_efficiency |-> NaN]

Return(t, d, e) == [kind |-> "return", error |-> "", avg_trend |-> t, avg_drag |-> d,
                    avg_efficiency |-> e]

ReturnNone == [kind |-> "return_none", error |-> "", avg_trend |-> NaN,
               avg_drag |-> NaN, avg_efficiency |-> NaN]

NoFrame == [trends |-> << >>, drags |-> << >>, effs |-> << >>]

(* a variant that tests the attribute __init__ always sets: hasattr(self, "data") *)
hasattr_data == "data" \in attrs

(* hasattr(self, "sim_paths") *)
hasattr_sim_paths == "sim_paths" \in attrs

(* 1e-8 *)
Epsilon == Ratio(1, EpsInv)

(* a variant that takes the leading entries: path[:w] *)
WindowLeading(path, w) == SubSeq(path, 1, IF w < Len(path) THEN w ELSE Len(path))

(* path[-w:], Python slice semantics: a negative start counts from the end and *)
(* is clamped to 0; -0 is 0, the start of the path.                            *)
Window(path, w) ==
    LET len   == Len(path)
        start == IF -w < 0 THEN (IF len - w < 0 THEN 0 ELSE len - w)
                 ELSE (IF -w > len THEN len ELSE -w)
    IN  SubSeq(path, start + 1, len)

(* trend = abs(window.sum()) *)
Trend(window) == FAbs(FSum(window))

(* var_sum = (window**2).sum() *)
VarSum(window) == FSum(Squares(window))

(* drag = (k**2 / 2) * var_sum *)
Drag(k, window) == FMul(FDiv(FMul(k, k), F(2)), VarSum(window))

(* eff = trend / (drag + 1e-8) *)
Eff(trend, drag) == FDiv(trend, FAdd(drag, Epsilon))

(* a variant that is off by one: if len(path) <= w: continue *)
SkippedOffByOne(path, w) == Len(path) <= w

(* the guard of the loop body: if len(path) < w: continue *)
Skipped(path, w) == Len(path) < w

(* the for loop over self.sim_paths: the paths it does not skip, in order, each *)
(* appending its trend, drag and eff                                           *)
Reduce(paths, k, w) ==
    LET kept    == SelectSeq(paths, LAMBDA path : ~Skipped(path, w))
        windows == [j \in 1..Len(kept) |-> Window(kept[j], w)]
        trends  == [j \in 1..Len(kept) |-> Trend(windows[j])]
        drags   == [j \in 1..Len(kept) |-> Drag(k, windows[j])]
    IN  [trends |-> trends,
         drags  |-> drags,
         effs   |-> [j \in 1..Len(kept) |-> Eff(trends[j], drags[j])]]

(* the returned dict *)
Metrics(f) == Return(Mean(f.trends), Mean(f.drags), Mean(f.effs))

(* the lists a call of compute_structural_greeks ends with *)
ComputeFrame ==
    IF ~hasattr_sim_paths THEN NoFrame
    ELSE Reduce(sim_paths, config.leverage_k, config.lookback_window)

Init ==
    /\ config \in VolatilityDragConfig
    /\ attrs = {"config", "data"}
    /\ sim_paths = << >>
    /\ op = "__init__"
    /\ ret = None
    /\ frame = NoFrame
    /\ stdout = ""
    /\ loads = 0
    /\ last_loaded = << >>
    /\ superseded = FALSE
    /\ sim_calls = 0
    /\ sim_last = << >>
    /\ sim_ref = << >>

(* a variant that stacks the new rows under the ones already held *)
StoreSimPathsStacked(simulated_log_returns) ==
    /\ attrs' = attrs \cup {"sim_paths"}
    /\ sim_paths' = sim_paths \o simulated_log_returns

(* self.sim_paths = simulated_log_returns *)
StoreSimPaths(simulated_log_returns) ==
    /\ attrs' = attrs \cup {"sim_paths"}
    /\ sim_paths' = simulated_log_returns

load_simulated_returns(simulated_log_returns) ==
    /\ loads < MaxLoads
    /\ StoreSimPaths(simulated_log_returns)
    /\ op' = "load_simulated_returns"
    /\ ret' = ReturnNone
    /\ frame' = NoFrame
    /\ stdout' = ""
    /\ loads' = loads + 1
    /\ last_loaded' = simulated_log_returns
    /\ superseded' = (loads >= 1 /\ last_loaded # simulated_log_returns)
    /\ UNCHANGED config
    /\ UNCHANGED simulator_vars

(* a variant that squares the window in place (window **= 2): the window is a *)
(* view, so the stored matrix changes                                        *)
compute_structural_greeks_in_place ==
    /\ op' = "compute_structural_greeks"
    /\ frame' = ComputeFrame
    /\ ret' = IF ~hasattr_sim_paths THEN Raise("No simulated paths loaded.")
              ELSE Metrics(frame')
    /\ stdout' = ""
    /\ sim_paths' = [i \in 1..Len(sim_paths) |->
                        IF Skipped(sim_paths[i], config.lookback_window)
                        THEN sim_paths[i]
                        ELSE LET len  == Len(sim_paths[i])
                                 wlen == Len(Window(sim_paths[i], config.lookback_window))
                             IN  [t \in 1..len |->
                                    IF t > len - wlen
                                    THEN FMul(sim_paths[i][t], sim_paths[i][t])
                                    ELSE sim_paths[i][t]]]
    /\ UNCHANGED <<config, attrs, loads, last_loaded, superseded>>
    /\ UNCHANGED simulator_vars

compute_structural_greeks ==
    /\ op' = "compute_structural_greeks"
    /\ frame' = ComputeFrame
    /\ ret' = IF ~hasattr_sim_paths THEN Raise("No simulated paths loaded.")
              ELSE Metrics(frame')
    /\ stdout' = ""
    /\ UNCHANGED <<config, attrs, sim_paths, loads, last_loaded, superseded>>
    /\ UNCHANGED simulator_vars

(* the STATUS line run_diagnosis prints for the metrics it got *)
Status(metrics) ==
    IF FGt(metrics.avg_efficiency, F(1)) THEN "FAVORABLE" ELSE "DECAY REGIME"

(* metrics = self.compute_structural_greeks(), then the report; an exception of *)
(* the call propagates                                                          *)
run_diagnosis ==
    /\ op' = "run_diagnosis"
    /\ frame' = ComputeFrame
    /\ IF ~hasattr_sim_paths
       THEN ret' = Raise("No simulated paths loaded.") /\ stdout' = ""
       ELSE ret' = ReturnNone /\ stdout' = Status(Metrics(frame'))
    /\ UNCHANGED <<config, attrs, sim_paths, loads, last_loaded, superseded>>
    /\ UNCHANGED simulator_vars

(* paths = simulate_log_return_paths(spot, forward_variance, days_to_expiry): the *)
(* matrices the script hands to the monitor, at the size of the model           *)
ScriptPaths ==
    {simulate_log_return_paths(F(1), Variance(1), MaxDays, MaxPaths, seed).value :
        seed \in Seeds}

(* what a caller may load: any matrix into a fresh monitor, the script's *)
(* simulated matrices at any time                                        *)
LoadInputs == IF loads = 0 THEN Matrices \cup ScriptPaths ELSE ScriptPaths

Next ==
    \/ \E m \in LoadInputs : load_simulated_returns(m)
    \/ compute_structural_greeks
    \/ run_diagnosis

Spec == Init /\ [][Next]_vars

(* the simulator on its own, beside a monitor with the default leverage *)
InitSim == Init /\ config.leverage_k = F(1) /\ config.lookback_window = 1

NextSim == \E a \in SimArgs : Simulate(a)

SpecSim == InitSim /\ [][NextSim]_vars

----------------------------------------------------------------------------
(* Properties *)

Computed == op = "compute_structural_greeks"

Diagnosed == op = "run_diagnosis"

MissingData == Raise("No simulated paths loaded.")

(* the indices of the stored paths that are at least a window long *)
IncludedIdx ==
    {i \in 1..Len(sim_paths) : Len(sim_paths[i]) >= config.lookback_window}

RECURSIVE SumAt(_, _)
SumAt(f, S) ==
    IF S = {} THEN F(0)
    ELSE LET i == CHOOSE x \in S : TRUE
         IN  FAdd(f[i], SumAt(f, S \ {i}))

MeanAt(f, S) == FDiv(SumAt(f, S), F(Cardinality(S)))

(* the indices of the last w entries of a path *)
Trailing(path, w) == {t \in 1..Len(path) : t > Len(path) - w}

(* C1: when every stored path is shorter than lookback_window, a call of
   compute_structural_greeks raises; it returns no metrics. *)
C1_InsufficientDataRaises ==
    (Computed /\ hasattr_sim_paths /\ Len(sim_paths) > 0 /\ IncludedIdx = {})
        => ret.kind = "raise"

(* C2: a call of compute_structural_greeks or run_diagnosis made before the first
   load raises the missing-data error and yields no metrics, lists or report; a
   call made after a load does not raise. *)
C2_Lifecycle ==
    (Computed \/ Diagnosed) =>
        /\ loads = 0 => (ret = MissingData /\ frame = NoFrame /\ stdout = "")
        /\ loads > 0 => ret.kind # "raise"

C2_Witness == Computed /\ loads = 0 /\ ret = MissingData

(* C3: a call of simulate_log_return_paths with days_to_expiry <= 0, a negative
   forward_variance or n_paths <= 0 raises and returns no matrix. *)
C3_InvalidConfigRejected ==
    sim_last # << >> =>
        LET a == sim_last[1].args
        IN  (a.days_to_expiry <= 0 \/ FGt(F(0), a.forward_variance) \/ a.n_paths <= 0)
                => sim_last[1].out.kind = "raise"

(* C4: a monitor whose leverage_k is negative never returns metrics from
   compute_structural_greeks. *)
C4_NegativeLeverageRejected ==
    FGt(F(0), config.leverage_k) => ~(Computed /\ ret.kind = "return")

(* C5: when at least one stored path is a window long, compute_structural_greeks
   returns, and each average is the mean, over exactly the paths at least a window
   long, of that path's trend, drag and efficiency; a shorter path adds nothing to
   the sums nor to the divisor. *)
C5_WindowExclusion ==
    (Computed /\ hasattr_sim_paths /\ IncludedIdx # {}) =>
        LET k == config.leverage_k
            w == config.lookback_window
            trend == [i \in 1..Len(sim_paths) |-> Trend(Window(sim_paths[i], w))]
            drag  == [i \in 1..Len(sim_paths) |-> Drag(k, Window(sim_paths[i], w))]
            eff   == [i \in 1..Len(sim_paths) |-> Eff(trend[i], drag[i])]
        IN  /\ ret.kind = "return"
            /\ Len(frame.trends) = Cardinality(IncludedIdx)
            /\ ret.avg_trend = MeanAt(trend, IncludedIdx)
            /\ ret.avg_drag = MeanAt(drag, IncludedIdx)
            /\ ret.avg_efficiency = MeanAt(eff, IncludedIdx)
            /\ IsFinite(ret.avg_trend) /\ IsFinite(ret.avg_drag)
            /\ IsFinite(ret.avg_efficiency)

C5_Witness ==
    /\ Computed /\ ret.kind = "return"
    /\ IncludedIdx # {}
    /\ \E i \in 1..Len(sim_paths) :
          /\ i \notin IncludedIdx
          /\ \E t \in 1..Len(sim_paths[i]) : sim_paths[i][t] # F(0)

(* C6: two calls of simulate_log_return_paths with the same forward_variance,
   days_to_expiry, n_paths and seed end the same way and return the same matrix,
   whatever calls were made before or between them. *)
C6_Deterministic ==
    (sim_ref # << >> /\ sim_last # << >>) =>
        LET a == sim_ref[1].args
            b == sim_last[1].args
        IN  (/\ a.forward_variance = b.forward_variance
             /\ a.days_to_expiry = b.days_to_expiry
             /\ a.n_paths = b.n_paths
             /\ a.seed = b.seed)
                => sim_ref[1].out = sim_last[1].out

C6_Witness ==
    /\ sim_ref # << >> /\ sim_last # << >>
    /\ sim_last[1].at >= sim_ref[1].at + 2
    /\ sim_ref[1].args = sim_last[1].args
    /\ sim_last[1].out.kind = "return"
    /\ Len(sim_last[1].out.value) > 1
    /\ Len(sim_last[1].out.value[1]) > 1
    /\ IsFinite(sim_last[1].out.value[1][1])
    /\ sim_last[1].out.value[1][1] # sim_last[1].out.value[1][2]

(* C7: with leverage_k = 0, every included path of a loaded, non-empty matrix has
   drag 0 and efficiency trend / 1e-8, and compute_structural_greeks returns
   avg_drag = 0 and a finite avg_efficiency. *)
C7_ZeroLeverageGuard ==
    (Computed /\ ret.kind = "return" /\ config.leverage_k = F(0) /\ Len(sim_paths) > 0) =>
        /\ \A j \in 1..Len(frame.drags) :
              /\ frame.drags[j] = F(0)
              /\ frame.effs[j] = FDiv(frame.trends[j], Epsilon)
        /\ ret.avg_drag = F(0)
        /\ IsFinite(ret.avg_efficiency)

(* C8: a call of compute_structural_greeks or run_diagnosis leaves the stored
   matrix, the instance attributes and the configuration as they were, and runs no
   simulation. *)
C8_ReadOnly ==
    [][(op' \in {"compute_structural_greeks", "run_diagnosis"}) =>
          /\ sim_paths' = sim_paths
          /\ attrs' = attrs
          /\ config' = config
          /\ UNCHANGED simulator_vars]_vars

C8_Witness ==
    /\ Diagnosed /\ stdout # ""
    /\ hasattr_sim_paths /\ sim_paths = last_loaded
    /\ \E i \in IncludedIdx : \E t \in 1..Len(sim_paths[i]) : sim_paths[i][t] # F(0)

(* C9: for a lookback_window w >= 1, the trend of every included path is the
   absolute value of the sum of its last w entries and its drag is leverage_k^2 / 2
   times the sum of the squares of those entries; both are non-negative, and a path
   of the same length that differs only before the last w entries has the same
   trend and drag. *)
C9_TrailingWindow ==
    (Computed /\ ret.kind = "return" /\ config.lookback_window >= 1) =>
        LET k == config.leverage_k
            w == config.lookback_window
            kept == SelectSeq(sim_paths, LAMBDA path : Len(path) >= w)
            sq(path) == [t \in 1..Len(path) |-> FMul(path[t], path[t])]
            others(path) == [1..Len(path) -> {Bp(-1), Bp(0), Bp(1)}]
        IN  /\ Len(frame.trends) = Len(kept)
            /\ Len(frame.drags) = Len(kept)
            /\ \A j \in 1..Len(kept) :
                  /\ Cardinality(Trailing(kept[j], w)) = w
                  /\ frame.trends[j] = FAbs(SumAt(kept[j], Trailing(kept[j], w)))
                  /\ frame.drags[j] =
                        FMul(FDiv(FMul(k, k), F(2)),
                             SumAt(sq(kept[j]), Trailing(kept[j], w)))
                  /\ ~FGt(F(0), frame.trends[j])
                  /\ ~FGt(F(0), frame.drags[j])
                  /\ \A q \in others(kept[j]) :
                        (\A t \in Trailing(kept[j], w) : q[t] = kept[j][t]) =>
                            /\ Trend(Window(q, w)) = frame.trends[j]
                            /\ Drag(k, Window(q, w)) = frame.drags[j]

C9_Witness ==
    /\ Computed /\ ret.kind = "return" /\ config.lookback_window >= 1
    /\ \E i \in IncludedIdx :
          /\ Len(sim_paths[i]) > config.lookback_window
          /\ sim_paths[i][1] # F(0)
          /\ sim_paths[i][1] # sim_paths[i][Len(sim_paths[i])]

(* C10: after any number of loads, compute_structural_greeks returns the metrics
   of the matrix passed to the most recent load, and of nothing else. *)
C10_NoStaleData ==
    (Computed /\ loads >= 1) =>
        ret = Metrics(Reduce(last_loaded, config.leverage_k, config.lookback_window))

C10_Witness ==
    /\ Computed /\ loads >= 2 /\ superseded
    /\ ret.kind = "return"
    /\ IsFinite(ret.avg_trend) /\ ret.avg_trend # F(0)

====
